---- MODULE Spec2Model ----
(***************************************************************************)
(* Model of the gateway device SDK client engine                           *)
(* (sdk/cpp/src/gateway_client.cpp) with its collaborators: the            *)
(* WebSocket transport (websocket_transport.cpp), the AuthManager          *)
(* (auth.cpp) and the ReconnectPolicy (reconnect_policy.cpp).              *)
(*                                                                         *)
(* Threads: an application thread U that calls connect(),                  *)
(* connectAsync(), subscribe() and unsubscribe(); a polling thread that    *)
(* calls poll(); disconnect() may be called from any further thread at     *)
(* any time.  A handler is one action, cut where the code blocks            *)
(* (condition-variable waits, the sleep of processReconnection) and where  *)
(* it leaves a window without the engine mutex between two writes that     *)
(* another thread reads (handleAuthMessage, the timeout path of            *)
(* doAuthentication).                                                      *)
(*                                                                         *)
(* Spec is the engine with the heartbeat off and the transport's send      *)
(* queue not followed.  DataSpec follows the queue and the writes to the   *)
(* carrier, HeartbeatSpec the heartbeat against a clock, RunSpec a thread   *)
(* inside run(), RegistrySpec the subscription registry with the close of  *)
(* the connection taken in its two steps, DelaySpec the delays of the      *)
(* ReconnectPolicy over its configurations, SubjectSpec and PureSpec the   *)
(* const functions on their inputs.                                        *)
(***************************************************************************)
EXTENDS Integers, Sequences, FiniteSets, TLC

VARIABLES
    config,              \* GatewayConfig: reconnect.enabled, maxAttempts, resubscribeOnReconnect,
                         \* the backoff, heartbeat.enabled; and whether the run follows
                         \* sendQueue_
    state,               \* GatewayClient::Impl::state_
    tstate,              \* WebSocketTransport::Impl::state_
    authState,           \* AuthManager::state_
    deviceInfo,          \* AuthManager::deviceInfo_ : nullopt, or <<info>> holding a DeviceInfo
    enabled,             \* ReconnectPolicy::enabled_
    attemptCount,        \* ReconnectPolicy::attemptCount_
    subscriptions,       \* Impl::subscriptions_ : id -> subject
    subjectToId,         \* Impl::subjectToId_ : subject -> id
    nextSubscriptionId,  \* Impl::nextSubscriptionId_
    sendQueue,           \* WebSocketTransport::Impl::sendQueue_
    sincePing,           \* now - lastPingSent_ in clock ticks, counted up to the interval
    sincePong,           \* now - lastPongReceived_ in clock ticks, counted up to past the
                         \* timeout; Never while lastPongReceived_ is the epoch
    missedPongs,         \* Impl::missedPongs_
    pingUnanswered,      \* history: a Ping was sent after the last Pong was received
    authReq,             \* an Auth request of this connection is unanswered at the gateway
    uPc,                 \* where thread U is inside connect()
    pPc,                 \* where the polling thread is inside poll()
    trace,               \* what the latest handler step did: state changes, frames sent, callbacks
    authSent,            \* history: an Auth request was handed to the transport on this connection
    errCbs,              \* history: onError(AuthenticationFailed) callbacks since the last connect call
    authFailed,          \* history: an Auth failure reply was handled since the last connect call
    inBurst,             \* history: a reconnect burst (loss in Connected, policy allowed) is running
    burstCbs             \* history: onReconnecting callbacks of the running burst

vars == <<config, state, tstate, authState, deviceInfo, enabled, attemptCount,
          subscriptions, subjectToId, nextSubscriptionId, sendQueue, sincePing,
          sincePong, missedPongs, pingUnanswered, authReq, uPc, pPc,
          trace, authSent, errCbs, authFailed, inBurst, burstCbs>>

\* ---- bounds -----------------------------------------------------------
MaxSubs == 2            \* subscription ids handed out per run
FiniteAttempts == 2     \* the finite maxAttempts configuration explored
AttemptCap == 2         \* attempts explored when maxAttempts = 0 (unlimited)

MaxLen == 3             \* characters in a subject or pattern given to the matchers
MaxAllow == 2           \* patterns in an allow-list of a DeviceInfo

MaxQueue == 3           \* frames followed in sendQueue_
MaxPayload == 2         \* distinct payloads given to publish()
MaxMissed == 3          \* missedPongs_ followed

MaxInitialDelay == 3    \* initialDelay configured, in units of the delay
DelayCap == 8           \* maxDelay configured, in the same units
MaxMultiplier2 == 4     \* backoffMultiplier configured, in halves (4 is 2.0)
MaxDelayAttempts == 5   \* attempts of one burst whose delays are followed

\* ---- std::string as a sequence of characters --------------------------
Chars == {"a", "b", ".", "*", ">"}
AlnumChars == {"a", "b"}
Strings == UNION {[1..n -> Chars] : n \in 0..MaxLen}

front(str) == str[1]
back(str) == str[Len(str)]
\* std::string::substr(pos, count) with pos counted from 0
substr(str, pos, count) ==
    SubSeq(str, pos + 1, IF pos + count > Len(str) THEN Len(str) ELSE pos + count)
\* str.find(sub) != npos
contains(str, sub) ==
    \E i \in 1..Len(str) : i + Len(sub) - 1 <= Len(str) /\ SubSeq(str, i, i + Len(sub) - 1) = sub
\* str.find(c): the first position of c counted from 0 (used only when c occurs)
find(str, c) == (CHOOSE i \in 1..Len(str) : str[i] = c /\ \A j \in 1..(i - 1) : str[j] # c) - 1
\* str.compare(0, n, other) == 0
compareEq(str, n, other) == substr(str, 0, n) = other

\* Protocol::isValidSubject
isValidSubject(subject) ==
    IF subject = << >> THEN FALSE
    ELSE IF Len(subject) > 256 THEN FALSE
    ELSE IF front(subject) = "." \/ back(subject) = "." THEN FALSE
    ELSE IF contains(subject, <<".", ".">>) THEN FALSE
    ELSE IF ~(\A i \in 1..Len(subject) : subject[i] \in AlnumChars \cup {".", "*", ">", "-", "_"})
    THEN FALSE
    ELSE IF contains(subject, <<">">>)
    THEN LET gtPos == find(subject, ">")
         IN IF gtPos # Len(subject) - 1 THEN FALSE
            ELSE IF gtPos > 0 /\ subject[gtPos] # "." THEN FALSE
            ELSE TRUE
    ELSE TRUE

\* the subjects and patterns an application can register or a gateway can name
ValidSubjects == {str \in Strings : isValidSubject(str)}
\* those without a wildcard character
ConcreteSubjects == {str \in ValidSubjects : \A i \in 1..Len(str) : str[i] \notin {"*", ">"}}

\* the subject the application subscribes to in the connection life cycle, and the
\* subject of the Message frames the gateway sends in it
Subjects == {<<"a", ".", "b">>}
Inbound == {<<"a", ".", "b">>}

ConnectionStates == {"Disconnected", "Connecting", "Authenticating", "Connected",
                     "Reconnecting", "Closing", "Closed"}
TransportStates == {"Disconnected", "Connecting", "Connected", "Closing", "Closed", "Error"}
AuthStates == {"NotAuthenticated", "Authenticating", "Authenticated", "Failed"}

\* The Auth replies a gateway can send: payload.success, and whether payload.device is an object
AuthReplies == [success : BOOLEAN, device : BOOLEAN]
\* How an open request ends: lws reports ESTABLISHED, lws reports CONNECTION_ERROR, or
\* neither within connectTimeout.  On the timeout WebSocketTransport::Impl::connect
\* calls disconnect() while it holds the transport mutex, which disconnect() locks
\* again: the behaviour is undefined, and the thread either blocks for good or goes
\* on as if the lock had been granted.
ConnectOutcomes == {"established", "error", "timeoutRelockBlocks", "timeoutRelockProceeds"}

\* ReconnectConfig; maxAttempts is read only while the policy is enabled, so one value
\* stands for it when reconnect is configured off; resubscribeOnReconnect is read only
\* by resubscribeAll, and is explored off with the default policy
\* the backoff of ReconnectConfig: initialDelay and maxDelay in one unit of time,
\* backoffMultiplier in halves, jitterEnabled (maxJitterFraction at its default, 1/4)
Backoffs == [initialDelay : 1..MaxInitialDelay, maxDelay : 1..DelayCap,
             multiplier2 : 1..MaxMultiplier2, jitter : BOOLEAN]
\* the engine sleeps for the delay and reads it nowhere else: one backoff stands for
\* all where the delays are not followed
DefaultBackoff == [initialDelay |-> 1, maxDelay |-> DelayCap, multiplier2 |-> MaxMultiplier2,
                   jitter |-> FALSE]

AllConfigs == [reconnect : BOOLEAN, maxAttempts : {0, FiniteAttempts}, resubscribe : BOOLEAN,
               heartbeat : BOOLEAN, followQueue : BOOLEAN, backoff : Backoffs]
\* The engine with the heartbeat configured off; the frames it hands to the transport
\* are in the trace, and the content of sendQueue_, which no handler of the engine
\* reads, is not followed
Configs == {c \in AllConfigs :
               /\ ~c.reconnect => c.maxAttempts = 0
               /\ ~c.resubscribe => c.reconnect /\ c.maxAttempts = 0
               /\ ~c.heartbeat /\ ~c.followQueue
               /\ c.backoff = DefaultBackoff}

\* HeartbeatConfig in clock ticks: interval, timeout, missedPongsBeforeDisconnect
HeartbeatInterval == 3
HeartbeatTimeout == 1
MissedPongsBeforeDisconnect == 2
\* lastPongReceived_ == time_point{}: no Pong was ever received
Never == -1
\* BufferConfig::maxOutgoingMessages
MaxOutgoingMessages == 2

Ev(k, a, n) == [k |-> k, a |-> a, n |-> n]

\* a std::string as it is written in an event of the trace
RECURSIVE Str(_)
Str(str) == IF str = << >> THEN "" ELSE str[1] \o Str(Tail(str))

\* std::optional: empty, or holding one value
nullopt == << >>

\* ---- the mutable world threaded through a handler ---------------------
Cur ==
    [state |-> state, tstate |-> tstate, authState |-> authState,
     deviceInfo |-> deviceInfo, enabled |-> enabled, attemptCount |-> attemptCount,
     subscriptions |-> subscriptions, subjectToId |-> subjectToId,
     nextSubscriptionId |-> nextSubscriptionId, sendQueue |-> sendQueue,
     sincePing |-> sincePing, sincePong |-> sincePong, missedPongs |-> missedPongs,
     pingUnanswered |-> pingUnanswered,
     authReq |-> authReq,
     authSent |-> authSent, errCbs |-> errCbs, trace |-> << >>, ret |-> "none",
     mutex |-> FALSE]

CountCb(t, name) == Len(SelectSeq(t, LAMBDA e : e.k = "cb" /\ e.a = name))

\* the step is taken while the frames it queues and the pongs it misses stay within
\* what is followed
Commit(w) ==
    /\ Len(w.sendQueue) <= MaxQueue
    /\ w.missedPongs <= MaxMissed
    /\ state' = w.state
    /\ tstate' = w.tstate
    /\ authState' = w.authState
    /\ deviceInfo' = w.deviceInfo
    /\ enabled' = w.enabled
    /\ attemptCount' = w.attemptCount
    /\ subscriptions' = w.subscriptions
    /\ subjectToId' = w.subjectToId
    /\ nextSubscriptionId' = w.nextSubscriptionId
    /\ sendQueue' = w.sendQueue
    /\ sincePing' = w.sincePing
    /\ sincePong' = w.sincePong
    /\ missedPongs' = w.missedPongs
    /\ pingUnanswered' = w.pingUnanswered
    /\ authReq' = w.authReq
    /\ trace' = w.trace
    /\ authSent' = w.authSent
    /\ errCbs' = w.errCbs + CountCb(w.trace, "onError:AuthenticationFailed")

\* the kinds of trace event that are calls into user code
CallbackKinds == {"state", "cb", "handler"}

\* mutex_ of the engine as held by the running handler
lock(w) == [w EXCEPT !.mutex = TRUE]
unlock(w) == [w EXCEPT !.mutex = FALSE]

\* a user callback made while the handler holds mutex_ is followed by a "locked" event
Emit(w, e) ==
    IF w.mutex /\ e.k \in CallbackKinds
    THEN [w EXCEPT !.trace = Append(Append(@, e), Ev("locked", e.a, e.n))]
    ELSE [w EXCEPT !.trace = Append(@, e)]
Ret(w, r) == [w EXCEPT !.ret = r]
\* what connect() returned, when the step ends the call
ConnectReturn(w) ==
    IF w.ret \in {"true", "false"} THEN Emit(w, Ev("ret", "connect:" \o w.ret, 0)) ELSE w

\* ---- WebSocketTransport ------------------------------------------------
transportSendOk(w) == w.tstate = "Connected"

\* sendQueue_.push
push(w, frame) ==
    IF config.followQueue THEN [w EXCEPT !.sendQueue = Append(@, frame)] ELSE w

\* trace: "send" for a frame the transport queued, "refused" for one it rejected
transportSend(w, type, id) ==
    IF transportSendOk(w)
    THEN [push(Emit(w, Ev("send", type, id)), [type |-> type, n |-> id]) EXCEPT !.ret = "ok"]
    ELSE [Emit(w, Ev("refused", type, id)) EXCEPT !.ret = "NotConnected"]

\* ---- ReconnectPolicy ---------------------------------------------------
shouldReconnect(w) ==
    IF ~w.enabled THEN FALSE
    ELSE IF config.maxAttempts > 0 /\ w.attemptCount >= config.maxAttempts THEN FALSE
    ELSE TRUE

getNextDelay(w) ==
    IF ~shouldReconnect(w) THEN w
    ELSE [w EXCEPT !.attemptCount = @ + 1]

RECURSIVE pow(_, _)
pow(base, exponent) == IF exponent = 0 THEN 1 ELSE base * pow(base, exponent - 1)

min(a, b) == IF a <= b THEN a ELSE b
max(a, b) == IF a >= b THEN a ELSE b

\* initialDelay * multiplier^(attemptCount - 1) as a double, cut to a whole Duration
backoff(attempt) ==
    (config.backoff.initialDelay * pow(config.backoff.multiplier2, attempt - 1))
        \div pow(2, attempt - 1)

calculateDelay(w) ==
    IF w.attemptCount <= 1 THEN config.backoff.initialDelay
    ELSE min(backoff(w.attemptCount), config.backoff.maxDelay)

\* the delays addJitter can return for delay: delay * f cut to a whole number for a
\* factor f of [3/4, 5/4), then kept within 1..maxDelay
addJitter(delay) ==
    {min(max(1, jittered), config.backoff.maxDelay) :
        jittered \in ((3 * delay) \div 4)..(((5 * delay + 3) \div 4) - 1)}

\* the values getNextDelay can return
nextDelays(w) ==
    IF ~shouldReconnect(w) THEN {0}
    ELSE IF config.backoff.jitter THEN addJitter(calculateDelay(getNextDelay(w)))
    ELSE {calculateDelay(getNextDelay(w))}

policyReset(w) == [w EXCEPT !.attemptCount = 0]

\* ---- GatewayClient::Impl ----------------------------------------------
RECURSIVE resubscribeFrom(_, _)
resubscribeFrom(w, ids) ==
    IF ids = {} THEN w
    ELSE LET id == CHOOSE i \in ids : \A j \in ids : i <= j
         IN resubscribeFrom(transportSend(w, "Subscribe", id), ids \ {id})

\* resubscribeAll walking the registry from the highest id down
RECURSIVE resubscribeDown(_, _)
resubscribeDown(w, ids) ==
    IF ids = {} THEN w
    ELSE LET id == CHOOSE i \in ids : \A j \in ids : i >= j
         IN resubscribeDown(transportSend(w, "Subscribe", id), ids \ {id})

resubscribeAllDescending(w) ==
    IF ~config.resubscribe THEN w
    ELSE unlock(resubscribeDown(lock(w), DOMAIN w.subscriptions))

resubscribeAll(w) ==
    IF ~config.resubscribe THEN w
    ELSE unlock(resubscribeFrom(lock(w), DOMAIN w.subscriptions))

\* setState up to and including the onStateChanged callback
exchangeState(w, newState) ==
    IF w.state = newState THEN w
    ELSE Emit([w EXCEPT !.state = newState], Ev("state", newState, 0))

setState(w, newState) ==
    IF w.state = newState THEN w
    ELSE IF newState = "Connected" THEN resubscribeAll(exchangeState(w, newState))
    ELSE exchangeState(w, newState)

onTransportConnected(w) == setState(w, "Authenticating")

onTransportDisconnected(w, code) ==
    IF w.enabled /\ shouldReconnect(w)
    THEN setState(w, "Reconnecting")
    ELSE Emit(setState(w, "Disconnected"), Ev("cb", "onDisconnected", 0))

\* a counter of ClientStats going up by one
count(w, counter) == Emit(w, Ev("stat", counter, 1))

onTransportError(w, code) == Emit(count(w, "errorCount"), Ev("cb", "onError:" \o code, 0))

\* ---- WebSocketTransport, continued ------------------------------------
transportConnect(w, outcome) ==
    IF w.tstate \in {"Connected", "Connecting"}
    THEN [w EXCEPT !.ret = "AlreadyConnected"]
    ELSE IF outcome = "established"
    THEN [onTransportConnected([w EXCEPT !.tstate = "Connected", !.authReq = FALSE,
                                         !.authSent = FALSE])
            EXCEPT !.ret = "ok"]
    ELSE IF outcome = "error"
    THEN [onTransportError([w EXCEPT !.tstate = "Error"], "ConnectionFailed")
            EXCEPT !.ret = "ConnectionFailed"]
    ELSE IF outcome = "timeoutRelockBlocks"
    THEN [w EXCEPT !.tstate = "Connecting", !.ret = "blocked"]
    ELSE [onTransportDisconnected([w EXCEPT !.tstate = "Closed", !.authReq = FALSE], "Success")
            EXCEPT !.ret = "ConnectionTimeout"]

transportDisconnect(w) ==
    IF w.tstate \in {"Disconnected", "Closed"} THEN w
    ELSE onTransportDisconnected([w EXCEPT !.tstate = "Closed", !.authReq = FALSE], "Success")

\* LWS_CALLBACK_CLIENT_WRITEABLE as retargeted to write the newest frame
lwsWriteableNewest(w, written) ==
    IF w.sendQueue = << >> THEN w
    ELSE LET message == w.sendQueue[Len(w.sendQueue)]
         IN IF written
            THEN [Emit(w, Ev("write", message.type, message.n))
                    EXCEPT !.sendQueue = SubSeq(@, 1, Len(@) - 1)]
            ELSE onTransportError(Emit(w, Ev("failed", message.type, message.n)),
                                  "InternalError")

\* LWS_CALLBACK_CLIENT_WRITEABLE on the open connection, where shouldExit_ is false:
\* lws_write of the front of the queue, popped unless the write failed
lwsWriteable(w, written) ==
    IF w.sendQueue = << >> THEN w
    ELSE LET message == Head(w.sendQueue)
         IN IF written
            THEN [Emit(w, Ev("write", message.type, message.n))
                    EXCEPT !.sendQueue = Tail(@)]
            ELSE onTransportError(Emit(w, Ev("failed", message.type, message.n)),
                                  "InternalError")

lwsClientClosed(w) ==
    onTransportDisconnected([w EXCEPT !.tstate = "Closed", !.authReq = FALSE], "ConnectionClosed")

\* ---- AuthManager -------------------------------------------------------
\* splitTokens of matchesPattern: std::getline(iss, token, '.') until it fails, so a
\* trailing '.' yields no empty last token
RECURSIVE splitTokens(_)
splitTokens(str) ==
    IF str = << >> THEN << >>
    ELSE IF contains(str, <<".">>)
    THEN LET d == find(str, ".")
         IN <<substr(str, 0, d)>> \o splitTokens(SubSeq(str, d + 2, Len(str)))
    ELSE <<str>>

\* the while loop of matchesPattern from positions pi, si (counted from 0)
RECURSIVE matchLoop(_, _, _, _)
matchLoop(patternTokens, subjectTokens, pi, si) ==
    IF pi < Len(patternTokens) /\ si < Len(subjectTokens)
    THEN LET pt == patternTokens[pi + 1]
         IN IF pt = <<">">> THEN TRUE
            ELSE IF pt = <<"*">> THEN matchLoop(patternTokens, subjectTokens, pi + 1, si + 1)
            ELSE IF pt = subjectTokens[si + 1]
            THEN matchLoop(patternTokens, subjectTokens, pi + 1, si + 1)
            ELSE FALSE
    ELSE pi = Len(patternTokens) /\ si = Len(subjectTokens)

\* matchLoop in which '>' also accepts when no subject token is left
RECURSIVE matchLoopGreedy(_, _, _, _)
matchLoopGreedy(patternTokens, subjectTokens, pi, si) ==
    IF pi < Len(patternTokens) /\ patternTokens[pi + 1] = <<">">> THEN TRUE
    ELSE IF pi < Len(patternTokens) /\ si < Len(subjectTokens)
    THEN LET pt == patternTokens[pi + 1]
         IN IF pt = <<"*">> THEN matchLoopGreedy(patternTokens, subjectTokens, pi + 1, si + 1)
            ELSE IF pt = subjectTokens[si + 1]
            THEN matchLoopGreedy(patternTokens, subjectTokens, pi + 1, si + 1)
            ELSE FALSE
    ELSE pi = Len(patternTokens) /\ si = Len(subjectTokens)

matchesPatternGreedy(pattern, subject) ==
    IF pattern = subject THEN TRUE
    ELSE matchLoopGreedy(splitTokens(pattern), splitTokens(subject), 0, 0)

\* AuthManager::matchesPattern
matchesPattern(pattern, subject) ==
    IF pattern = subject THEN TRUE
    ELSE matchLoop(splitTokens(pattern), splitTokens(subject), 0, 0)

\* the for loop of canPublish and canSubscribe over an allow-list
anyMatches(topics, subject) ==
    \E i \in 1..Len(topics) : matchesPattern(topics[i], subject)

\* canPublish in which an empty allow-list grants every subject
canPublishOpen(w, subject) ==
    IF w.deviceInfo = nullopt THEN FALSE
    ELSE IF w.deviceInfo[1].allowedPublishTopics = << >> THEN TRUE
    ELSE anyMatches(w.deviceInfo[1].allowedPublishTopics, subject)

canPublish(w, subject) ==
    IF w.deviceInfo = nullopt THEN FALSE
    ELSE IF w.deviceInfo[1].allowedPublishTopics = << >> THEN FALSE
    ELSE anyMatches(w.deviceInfo[1].allowedPublishTopics, subject)

canSubscribe(w, subject) ==
    IF w.deviceInfo = nullopt THEN FALSE
    ELSE IF w.deviceInfo[1].allowedSubscribeTopics = << >> THEN FALSE
    ELSE anyMatches(w.deviceInfo[1].allowedSubscribeTopics, subject)

\* the DeviceInfo the gateway of the life-cycle runs reports in payload.device
GatewayDevice ==
    [allowedPublishTopics |-> << <<"a", ".", ">">> >>,
     allowedSubscribeTopics |-> << <<"a", ".", "*">> >>]

processAuthResponse(msg) ==
    [success |-> msg.success,
     deviceInfo |-> IF msg.success /\ msg.device THEN <<GatewayDevice>> ELSE nullopt]

startAuth(w) == [w EXCEPT !.authState = "Authenticating"]

authHandleMessage(w, msg) ==
    IF w.authState # "Authenticating" THEN [w EXCEPT !.ret = "unhandled"]
    ELSE LET result == processAuthResponse(msg)
         IN IF result.success
            THEN [w EXCEPT !.authState = "Authenticated",
                           !.deviceInfo = result.deviceInfo, !.ret = "handled"]
            ELSE [w EXCEPT !.authState = "Failed", !.ret = "handled"]

authReset(w) == [w EXCEPT !.authState = "NotAuthenticated", !.deviceInfo = nullopt]

isAuthenticated(w) == w.authState = "Authenticated"

\* ---- GatewayClient::Impl, continued -----------------------------------
\* handleMessage for a frame that Protocol::deserialize accepts, up to the switch
received(w) == count(w, "messagesReceived")
\* handleMessage for a frame that Protocol::deserialize rejects
handleMessageFailed(w) == Emit(w, Ev("log", "Failed to parse message", 0))

\* handleAuthMessage after setState has returned: connectedAt, onConnected
handleAuthConnected(w) == Emit(w, Ev("cb", "onConnected", 0))

\* handleAuthMessage leaving the reconnect policy as it is
handleAuthMessageKeeping(w) ==
    IF isAuthenticated(w)
    THEN IF w.state = "Connected" THEN handleAuthConnected(w)
         ELSE [exchangeState(w, "Connected") EXCEPT !.ret = "resubscribe"]
    ELSE Ret(setState(Emit(w, Ev("log", "Authentication failed", 0)), "Disconnected"), "none")

\* handleAuthMessage once authManager_.handleMessage has returned true, up to the
\* onStateChanged callback of setState(Connected); ret = "resubscribe" when setState
\* goes on to resubscribeAll
handleAuthMessage(w) ==
    IF isAuthenticated(w)
    THEN LET w2 == policyReset(w)
         IN IF w2.state = "Connected" THEN handleAuthConnected(w2)
            ELSE [exchangeState(w2, "Connected") EXCEPT !.ret = "resubscribe"]
    ELSE Ret(setState(Emit(w, Ev("log", "Authentication failed", 0)), "Disconnected"), "none")

\* GatewayClient::Impl::matchesSubject
matchesSubject(pattern, subject) ==
    IF pattern = subject THEN TRUE
    ELSE IF back(pattern) = ">"
    THEN LET prefix == substr(pattern, 0, Len(pattern) - 1)
         IN compareEq(subject, Len(prefix), prefix)
    ELSE IF contains(pattern, <<"*">>) THEN TRUE
    ELSE FALSE

\* What the handler of subscription `who` does when invoked (the others return):
\* it returns; it throws, and the exception unwinds out of poll() or ends the process
\* (std::terminate: the thread of runAsync, or a frame that cannot be unwound); it
\* calls publish() on the client, whose lock_guard locks the mutex_ the dispatching
\* thread holds, which is undefined: the thread blocks for good or goes on.
HandlerActs == {"return", "throwUnwinds", "throwTerminates", "publishBlocks", "publishProceeds"}

\* the for loop of handleSubscriptionMessage over subscriptions_ (a std::map: by id)
RECURSIVE dispatchFrom(_, _, _, _, _)
dispatchFrom(w, ids, subject, who, act) ==
    IF ids = {} THEN Ret(w, "none")
    ELSE LET id == CHOOSE i \in ids : \A j \in ids : i <= j
         IN IF ~matchesSubject(w.subscriptions[id], subject)
            THEN dispatchFrom(w, ids \ {id}, subject, who, act)
            ELSE LET w1 == Emit(w, Ev("handler", "handler", id))
                 IN IF id # who \/ act = "return"
                    THEN dispatchFrom(w1, ids \ {id}, subject, who, act)
                    ELSE IF act = "publishProceeds"
                    THEN dispatchFrom(transportSend(w1, "Publish", 0), ids \ {id},
                                      subject, who, act)
                    ELSE IF act = "publishBlocks" THEN Ret(w1, "blockedInHandler")
                    ELSE Ret(Emit(w1, Ev("throw", "handler", id)), act)

handleSubscriptionMessage(w, subject, who, act) ==
    unlock(dispatchFrom(lock(Emit(w, Ev("recv", Str(subject), 0))),
                        DOMAIN w.subscriptions, subject, who, act))

\* processReconnection announcing the attempt count read before getNextDelay
processReconnectionStale(w) ==
    IF ~shouldReconnect(w)
    THEN [setState(w, "Disconnected") EXCEPT !.ret = "none"]
    ELSE LET w1 == getNextDelay(w)
         IN [Emit(w1, Ev("cb", "onReconnecting", w.attemptCount)) EXCEPT !.ret = "sleep"]

\* processReconnection up to its sleep; ret = "sleep" when an attempt was started
processReconnection(w) ==
    IF ~shouldReconnect(w)
    THEN [setState(w, "Disconnected") EXCEPT !.ret = "none"]
    ELSE LET w1 == getNextDelay(w)
         IN [Emit(w1, Ev("cb", "onReconnecting", w1.attemptCount)) EXCEPT !.ret = "sleep"]

handlePongMessage(w) ==
    [w EXCEPT !.sincePong = 0, !.missedPongs = 0, !.pingUnanswered = FALSE]

\* trace: "disconnect" for transport_->disconnect(1000, "Heartbeat timeout")
processHeartbeat(w) ==
    LET sent == transportSend(w, "Ping", 0)
        w1 == IF w.sincePing >= HeartbeatInterval
              THEN [sent EXCEPT !.sincePing = 0, !.ret = w.ret,
                                !.pingUnanswered = @ \/ sent.ret = "ok"]
              ELSE w
    IN IF w1.sincePong # Never /\ w1.sincePong > HeartbeatTimeout
       THEN LET w2 == [w1 EXCEPT !.missedPongs = @ + 1]
            IN IF w2.missedPongs >= MissedPongsBeforeDisconnect
               THEN transportDisconnect(Emit(w2, Ev("disconnect", "Heartbeat timeout", 0)))
               ELSE w2
       ELSE w1

\* poll() after transport_->poll(): the heartbeat and the reconnection branch
pollTail(w) ==
    IF w.ret \in {"resubscribe", "handled", "blockedInHandler", "throwTerminates"} THEN w
    ELSE IF w.ret = "throwUnwinds" THEN Emit(w, Ev("ret", "poll:exception", 0))
    ELSE LET w1 == IF w.state = "Connected" /\ config.heartbeat
                   THEN processHeartbeat(w) ELSE w
         IN IF w1.state = "Reconnecting" THEN processReconnection(w1)
            ELSE [w1 EXCEPT !.ret = "none"]

\* doAuthentication up to its wait on authCv; ret = "wait" when the request went out
doAuthenticationSend(w) ==
    LET w1 == startAuth(setState(w, "Authenticating"))
        w2 == transportSend(w1, "Auth", 0)
    IN IF w2.ret # "ok"
       THEN Ret(setState(w2, "Disconnected"), "false")
       ELSE [w2 EXCEPT !.authReq = TRUE, !.authSent = TRUE, !.ret = "wait"]

\* disconnect() as retargeted to drop the subscriptions with the session
disconnectClearing(w) ==
    IF w.state \in {"Disconnected", "Closed"} THEN Ret(w, "void")
    ELSE LET w1 == setState(lock([w EXCEPT !.enabled = FALSE]), "Closing")
             w2 == transportDisconnect(unlock(w1))
             w3 == authReset(w2)
         IN Ret(setState([w3 EXCEPT !.subscriptions = << >>], "Closed"), "void")

disconnect(w) ==
    IF w.state \in {"Disconnected", "Closed"} THEN Ret(w, "void")
    ELSE LET w1 == setState(lock([w EXCEPT !.enabled = FALSE]), "Closing")
             w2 == transportDisconnect(unlock(w1))
             w3 == authReset(w2)
         IN Ret(setState(w3, "Closed"), "void")

\* what a call of the API returned: the error code, or the id of a new subscription
Return(w, call, n) == Emit(w, Ev("ret", call \o ":" \o w.ret, n))

\* publish() as retargeted to check the subject before the state
publishValidatesFirst(w, subject, payload) ==
    IF ~isValidSubject(subject) THEN Ret(w, "InvalidSubject")
    ELSE IF w.state # "Connected" THEN Ret(w, "NotConnected")
    ELSE LET w1 == IF canPublish(w, subject) THEN w
                   ELSE Emit(w, Ev("log", "Publish not authorized", 0))
             w2 == transportSend(w1, "Publish", payload)
         IN IF w2.ret = "ok" THEN Ret(count(w2, "messagesSent"), "ok") ELSE w2

publish(w, subject, payload) ==
    IF w.state # "Connected" THEN Ret(w, "NotConnected")
    ELSE IF ~isValidSubject(subject) THEN Ret(w, "InvalidSubject")
    ELSE LET w1 == IF canPublish(w, subject) THEN w
                   ELSE Emit(w, Ev("log", "Publish not authorized", 0))
             w2 == transportSend(w1, "Publish", payload)
         IN IF w2.ret = "ok" THEN Ret(count(w2, "messagesSent"), "ok") ELSE w2

put(f, k, v) == [x \in DOMAIN f \cup {k} |-> IF x = k THEN v ELSE f[x]]
erase(f, k) == [x \in DOMAIN f \ {k} |-> f[x]]

\* subscribe() as retargeted to hand out the lowest id that is not registered
subscribeLowestFree(w, subject) ==
    IF w.state # "Connected" THEN Return(Ret(w, "NotConnected"), "subscribe", 0)
    ELSE IF ~isValidSubject(subject) THEN Return(Ret(w, "InvalidSubject"), "subscribe", 0)
    ELSE LET id == CHOOSE i \in 1..(Len(w.subscriptions) + 1) :
                      /\ i \notin DOMAIN w.subscriptions
                      /\ \A j \in 1..(i - 1) : j \in DOMAIN w.subscriptions
             w1 == [w EXCEPT !.nextSubscriptionId = IF id < @ THEN @ ELSE id + 1,
                             !.subscriptions = put(@, id, subject),
                             !.subjectToId = put(@, subject, id)]
             w2 == transportSend(w1, "Subscribe", id)
         IN IF w2.ret # "ok"
            THEN Return(Ret([w2 EXCEPT !.subscriptions = erase(@, id),
                                       !.subjectToId = erase(@, subject)], "NotConnected"),
                        "subscribe", 0)
            ELSE Return(Ret(w2, "id"), "subscribe", id)

\* the return event of a successful call carries the id handed out
subscribe(w, subject) ==
    IF w.state # "Connected" THEN Return(Ret(w, "NotConnected"), "subscribe", 0)
    ELSE IF ~isValidSubject(subject) THEN Return(Ret(w, "InvalidSubject"), "subscribe", 0)
    ELSE LET id == w.nextSubscriptionId
             w1 == [w EXCEPT !.nextSubscriptionId = @ + 1,
                             !.subscriptions = put(@, id, subject),
                             !.subjectToId = put(@, subject, id)]
             w2 == transportSend(w1, "Subscribe", id)
         IN IF w2.ret # "ok"
            THEN Return(Ret([w2 EXCEPT !.subscriptions = erase(@, id),
                                       !.subjectToId = erase(@, subject)], "NotConnected"),
                        "subscribe", 0)
            ELSE Return(Ret(w2, "id"), "subscribe", id)

unsubscribe(w, id) ==
    IF id \notin DOMAIN w.subscriptions THEN Ret(w, "NotSubscribed")
    ELSE LET subject == w.subscriptions[id]
             w1 == IF w.state = "Connected" THEN transportSend(w, "Unsubscribe", id) ELSE w
         IN Ret([w1 EXCEPT !.subjectToId = erase(@, subject),
                           !.subscriptions = erase(@, id)], "ok")

\* unsubscribe(const std::string&): the id is looked up under mutex_, which is
\* released before unsubscribe(id) takes it again
unsubscribeSubject(w, subject) ==
    IF subject \notin DOMAIN w.subjectToId THEN Ret(w, "NotSubscribed")
    ELSE unsubscribe(w, w.subjectToId[subject])

\* ---- history ------------------------------------------------------------
BurstAfter(w, started) ==
    started \/ (inBurst /\ w.state \in {"Reconnecting", "Authenticating"})

History(w, started) ==
    /\ inBurst' = BurstAfter(w, started)
    /\ burstCbs' = IF ~BurstAfter(w, started) THEN 0
                   ELSE (IF inBurst THEN burstCbs ELSE 0) + CountCb(w.trace, "onReconnecting")

\* ---- initial state ------------------------------------------------------
\* the members of a constructed client that a session does not initialise
Constructed ==
    /\ sendQueue = << >>
    /\ sincePing = HeartbeatInterval
    /\ sincePong = Never
    /\ missedPongs = 0
    /\ pingUnanswered = FALSE

\* a client after construction under config
Started ==
    /\ Constructed
    /\ state = "Disconnected"
    /\ tstate = "Disconnected"
    /\ authState = "NotAuthenticated"
    /\ deviceInfo = nullopt
    /\ enabled = config.reconnect
    /\ attemptCount = 0
    /\ subscriptions = << >>
    /\ subjectToId = [s \in {} |-> 0]
    /\ nextSubscriptionId = 1
    /\ authReq = FALSE
    /\ authSent = FALSE
    /\ errCbs = 0
    /\ uPc = "idle"
    /\ pPc = "idle"
    /\ trace = << >>
    /\ authFailed = FALSE
    /\ inBurst = FALSE
    /\ burstCbs = 0

Init == config \in Configs /\ Started

\* ---- the engine mutex across steps ---------------------------------------
\* mutex_ is free unless U sits in the timeout path of doAuthentication, which
\* holds it from the wait to the return, or is blocked inside connectAsync()
\* or the polling thread is blocked inside a subscription handler, or the process has
\* ended
MutexFree == uPc \notin {"authTimedOut", "blockedAsync", "terminated"} /\ pPc # "blockedInHandler"

\* The transport mutex is free unless a thread is blocked inside transport_->connect,
\* which then holds it for good.  A handler that calls into the transport is taken
\* only with the transport mutex free: otherwise its thread blocks at that call.
TransportFree == tstate # "Connecting"

\* transport_->connect returns AlreadyConnected without asking the carrier when the
\* transport is open: one outcome then stands for all
Asked(outcome) == tstate = "Connected" => outcome = "established"

\* ---- thread U: connect() ------------------------------------------------
\* connect() as retargeted to start over while an attempt is under way
ConnectStartingOver ==
    /\ uPc = "idle"
    /\ MutexFree
    /\ LET w == lock([Cur EXCEPT !.errCbs = 0])
           w1 == IF w.state = "Connected" THEN Ret(w, "true")
                 ELSE [setState(w, "Connecting") EXCEPT !.ret = "transport"]
       IN /\ Commit(ConnectReturn(unlock(w1)))
          /\ uPc' = IF w1.ret = "transport" THEN "connTransport" ELSE "idle"
          /\ History(w1, FALSE)
    /\ authFailed' = FALSE
    /\ UNCHANGED <<config, pPc>>

Connect ==
    /\ uPc = "idle"
    /\ MutexFree
    /\ LET w == lock([Cur EXCEPT !.errCbs = 0])
           w1 == IF w.state = "Connected" THEN Ret(w, "true")
                 ELSE IF w.state \in {"Connecting", "Authenticating"} THEN Ret(w, "false")
                 ELSE [setState(w, "Connecting") EXCEPT !.ret = "transport"]
       IN /\ Commit(ConnectReturn(unlock(w1)))
          /\ uPc' = IF w1.ret = "transport" THEN "connTransport" ELSE "idle"
          /\ History(w1, FALSE)
    /\ authFailed' = FALSE
    /\ UNCHANGED <<config, pPc>>

ConnectTransport(outcome) ==
    /\ uPc = "connTransport"
    /\ TransportFree
    /\ Asked(outcome)
    /\ LET w == transportConnect(Cur, outcome)
           w1 == IF w.ret = "blocked" THEN w
                 ELSE IF w.ret # "ok" THEN Ret(setState(w, "Disconnected"), "false")
                 ELSE [w EXCEPT !.ret = "wait"]
       IN /\ Commit(ConnectReturn(w1))
          /\ uPc' = IF w1.ret = "wait" THEN "connWait"
                    ELSE IF w1.ret = "blocked" THEN "blocked" ELSE "idle"
          /\ History(w1, FALSE)
    /\ UNCHANGED <<config, pPc, authFailed>>

\* connectCv.wait_for: woken with the predicate true, or timed out with it false;
\* connLock is held from the wake-up to the end of the block
ConnectWait ==
    /\ uPc = "connWait"
    /\ MutexFree
    /\ TransportFree
    /\ LET w == Cur
           w1 == IF w.state = "Disconnected" THEN Ret(w, "false")
                 ELSE IF w.state = "Authenticating" THEN doAuthenticationSend(w)
                 ELSE Ret(unlock(setState(transportDisconnect(lock(w)), "Disconnected")),
                          "false")
       IN /\ Commit(ConnectReturn(w1))
          /\ uPc' = IF w1.ret = "wait" THEN "authWait" ELSE "idle"
          /\ History(w1, FALSE)
    /\ UNCHANGED <<config, pPc, authFailed>>

\* authCv.wait_for: woken with the predicate true and doAuthentication returns, or
\* timed out with it false and transport_->disconnect is called under the lock
AuthWait ==
    /\ uPc = "authWait"
    /\ MutexFree
    /\ TransportFree
    /\ LET w == Cur
           w1 == IF isAuthenticated(w) \/ w.state = "Disconnected"
                 THEN Ret(w, IF isAuthenticated(w) THEN "true" ELSE "false")
                 ELSE Ret(transportDisconnect(lock(w)), "timedOut")
       IN /\ Commit(ConnectReturn(w1))
          /\ uPc' = IF w1.ret = "timedOut" THEN "authTimedOut" ELSE "idle"
          /\ History(w1, FALSE)
    /\ UNCHANGED <<config, pPc, authFailed>>

\* the timeout path of doAuthentication after transport_->disconnect has returned:
\* setState(Disconnected), return false
AuthTimedOut ==
    /\ uPc = "authTimedOut"
    /\ LET w1 == Ret(setState(lock(Cur), "Disconnected"), "false")
       IN /\ Commit(ConnectReturn(unlock(w1)))
          /\ History(w1, FALSE)
    /\ uPc' = "idle"
    /\ UNCHANGED <<config, pPc, authFailed>>

ConnectAsync(outcome) ==
    /\ uPc = "idle"
    /\ MutexFree
    /\ TransportFree
    /\ Asked(outcome)
    /\ state \in {"Connected", "Connecting", "Authenticating"} => outcome = "established"
    /\ LET w == lock([Cur EXCEPT !.errCbs = 0])
           w1 == IF w.state \in {"Connected", "Connecting", "Authenticating"}
                 THEN Ret(w, "AlreadyConnected")
                 ELSE LET w2 == transportConnect(setState(w, "Connecting"), outcome)
                      IN IF w2.ret = "blocked" THEN w2
                         ELSE IF w2.ret # "ok"
                         THEN Ret(setState(w2, "Disconnected"), w2.ret)
                         ELSE Ret(w2, "ok")
       IN /\ Commit(IF w1.ret = "blocked" THEN w1 ELSE Return(w1, "connectAsync", 0))
          /\ History(w1, FALSE)
          /\ uPc' = IF w1.ret = "blocked" THEN "blockedAsync" ELSE "idle"
    /\ authFailed' = FALSE
    /\ UNCHANGED <<config, pPc>>

\* ---- thread U: subscribe(), unsubscribe() ------------------------------
Subscribe(subject) ==
    /\ uPc = "idle"
    /\ MutexFree
    /\ TransportFree
    /\ nextSubscriptionId <= MaxSubs
    /\ Commit(subscribe(Cur, subject))
    /\ UNCHANGED <<config, uPc, pPc, authFailed, inBurst, burstCbs>>

\* id is a registered id, or the first unregistered one, which stands for all of them
Unsubscribe(id) ==
    /\ uPc = "idle"
    /\ id \in DOMAIN subscriptions \/ \A j \in 1..(id - 1) : j \in DOMAIN subscriptions
    /\ MutexFree
    /\ TransportFree
    /\ Commit(Return(unsubscribe(Cur, id), "unsubscribe", id))
    /\ UNCHANGED <<config, uPc, pPc, authFailed, inBurst, burstCbs>>

UnsubscribeSubject(subject) ==
    /\ uPc = "idle"
    /\ MutexFree
    /\ TransportFree
    /\ Commit(Return(unsubscribeSubject(Cur, subject), "unsubscribeSubject", 0))
    /\ UNCHANGED <<config, uPc, pPc, authFailed, inBurst, burstCbs>>

\* publish(); the subjects given are a valid one and one that isValidSubject rejects.
\* The payload tells the frames apart in sendQueue_: one payload stands for all of
\* them where the queue is not followed.
PublishSubjects == Subjects \cup {<<".">>}

Publish(subject, payload) ==
    /\ uPc = "idle"
    /\ config.followQueue \/ payload = 1
    /\ MutexFree
    /\ TransportFree
    /\ Commit(Return(publish(Cur, subject, payload), "publish", payload))
    /\ UNCHANGED <<config, uPc, pPc, authFailed, inBurst, burstCbs>>

\* ---- any thread: disconnect() ------------------------------------------
Disconnect ==
    /\ MutexFree
    /\ TransportFree
    /\ LET w1 == disconnect(Cur)
       IN /\ Commit(w1)
          /\ History(w1, FALSE)
    /\ UNCHANGED <<config, uPc, pPc, authFailed>>

\* ---- polling thread: poll() ---------------------------------------------
PollEnd(w, started) ==
    /\ w.attemptCount <= AttemptCap
    /\ Commit(w)
    /\ pPc' = IF w.ret = "sleep" THEN "reconnSleep"
              ELSE IF w.ret = "resubscribe" THEN "resubscribe"
              ELSE IF w.ret = "handled" THEN "authHandled"
              ELSE IF w.ret = "blocked" THEN "blocked"
              ELSE IF w.ret = "blockedInHandler" THEN "blockedInHandler"
              ELSE IF w.ret = "throwTerminates" THEN "terminated" ELSE "idle"
    /\ History(w, started)
    /\ uPc' = IF w.ret = "throwTerminates" THEN "terminated" ELSE uPc
    /\ UNCHANGED config

\* poll() with no transport event pending
PollIdle ==
    /\ pPc = "idle"
    /\ PollEnd(pollTail(Cur), FALSE)
    /\ UNCHANGED authFailed

\* poll() in which lws reports LWS_CALLBACK_CLIENT_CLOSED
PollClosed ==
    /\ pPc = "idle"
    /\ tstate = "Connected"
    /\ LET w == lwsClientClosed(Cur)
       IN PollEnd(pollTail(w), state = "Connected" /\ w.state = "Reconnecting")
    /\ UNCHANGED authFailed

\* The same in two steps: LWS_CALLBACK_CLIENT_CLOSED sets the transport's state_ and
\* clears wsi_, and then calls the engine's callback, which takes no mutex: a call
\* of another thread can run between the two
PollClosedBegin ==
    /\ pPc = "idle"
    /\ tstate = "Connected"
    /\ Commit([Cur EXCEPT !.tstate = "Closed", !.authReq = FALSE])
    /\ pPc' = "closed"
    /\ UNCHANGED <<config, uPc, authFailed, inBurst, burstCbs>>

PollClosedCallback ==
    /\ pPc = "closed"
    /\ LET w == lwsClientClosed(Cur)
       IN PollEnd(pollTail(w), state = "Connected" /\ w.state = "Reconnecting")
    /\ UNCHANGED authFailed

\* poll() in which the gateway's Auth reply arrives: LWS_CALLBACK_CLIENT_RECEIVE on
\* the open connection, in answer to the Auth request sent on it; the step ends when
\* authManager_.handleMessage has returned
PollAuthReply(msg) ==
    /\ pPc = "idle"
    /\ tstate = "Connected"
    /\ authReq
    /\ \A i \in 1..Len(sendQueue) : sendQueue[i].type # "Auth"
    /\ LET w == authHandleMessage(received([Cur EXCEPT !.authReq = FALSE]), msg)
       IN /\ PollEnd(pollTail(w), FALSE)
          /\ authFailed' = (authFailed \/ (w.ret = "handled" /\ ~isAuthenticated(w)))

\* handleAuthMessage after authManager_.handleMessage returned true
PollAuthHandled ==
    /\ pPc = "authHandled"
    /\ PollEnd(pollTail(handleAuthMessage(Cur)), FALSE)
    /\ UNCHANGED authFailed

\* the rest of that poll(): setState(Connected) takes the mutex in resubscribeAll,
\* then handleAuthMessage fires onConnected
PollResubscribe ==
    /\ pPc = "resubscribe"
    /\ config.resubscribe => MutexFree /\ TransportFree
    /\ PollEnd(pollTail(handleAuthConnected(resubscribeAll(Cur))), FALSE)
    /\ UNCHANGED authFailed

\* poll() in which a Message frame arrives (LWS_CALLBACK_CLIENT_RECEIVE); the handler
\* that acts belongs to a subscription that is invoked, or every handler returns
PollMessage(subject, who, act) ==
    /\ pPc = "idle"
    /\ tstate = "Connected"
    /\ MutexFree
    /\ \/ who \in DOMAIN subscriptions /\ matchesSubject(subscriptions[who], subject)
       \/ who = 1 /\ act = "return"
    /\ PollEnd(pollTail(handleSubscriptionMessage(received(Cur), subject, who, act)), FALSE)
    /\ UNCHANGED authFailed

\* poll() in which lws reports LWS_CALLBACK_CLIENT_WRITEABLE, asked for by send() and
\* by the callback itself while the queue holds a frame
PollWriteable(written) ==
    /\ pPc = "idle"
    /\ tstate = "Connected"
    /\ sendQueue # << >>
    /\ PollEnd(pollTail(lwsWriteable(Cur, written)), FALSE)
    /\ UNCHANGED authFailed

\* poll() in which a frame arrives that does not decode
PollUndecodable ==
    /\ pPc = "idle"
    /\ tstate = "Connected"
    /\ PollEnd(pollTail(handleMessageFailed(Cur)), FALSE)
    /\ UNCHANGED authFailed

\* poll() in which a Pong frame arrives: the gateway's answer to a Ping, which the
\* engine sends in Connected
PollPong ==
    /\ pPc = "idle"
    /\ tstate = "Connected"
    /\ state = "Connected"
    /\ PollEnd(pollTail(handlePongMessage(Emit(received(Cur), Ev("pong", "Pong", 0)))), FALSE)
    /\ UNCHANGED authFailed

\* a tick of the steady clock
Tick ==
    /\ sincePing' = IF sincePing < HeartbeatInterval THEN sincePing + 1 ELSE sincePing
    /\ sincePong' = IF sincePong # Never /\ sincePong <= HeartbeatTimeout
                    THEN sincePong + 1 ELSE sincePong
    /\ trace' = << >>
    /\ UNCHANGED <<config, state, tstate, authState, deviceInfo, enabled, attemptCount,
                   subscriptions, subjectToId, nextSubscriptionId, sendQueue, missedPongs,
                   pingUnanswered, authReq, uPc, pPc, authSent, errCbs, authFailed, inBurst, burstCbs>>

\* processReconnection after its sleep: transport_->connect
PollReconnectConnect(outcome) ==
    /\ pPc = "reconnSleep"
    /\ TransportFree
    /\ Asked(outcome)
    /\ LET w == transportConnect(Cur, outcome)
       IN PollEnd(IF w.ret = "blocked" THEN w ELSE [w EXCEPT !.ret = "none"], FALSE)
    /\ UNCHANGED authFailed

Next ==
    \/ Connect
    \/ \E o \in ConnectOutcomes : ConnectTransport(o)
    \/ ConnectWait
    \/ AuthWait
    \/ AuthTimedOut
    \/ \E o \in ConnectOutcomes : ConnectAsync(o)
    \/ \E s \in Subjects : Subscribe(s)
    \/ \E i \in 1..MaxSubs : Unsubscribe(i)
    \/ \E subject \in PublishSubjects, payload \in 1..MaxPayload : Publish(subject, payload)
    \/ Disconnect
    \/ PollIdle
    \/ PollClosed
    \/ \E m \in AuthReplies : PollAuthReply(m)
    \/ PollAuthHandled
    \/ PollResubscribe
    \/ \E subject \in Inbound, who \in 1..MaxSubs, act \in HandlerActs :
          PollMessage(subject, who, act)
    \/ \E o \in ConnectOutcomes : PollReconnectConnect(o)

Spec == Init /\ [][Next]_vars

\* ---- repeated poll() against a gateway that accepts and authenticates ---
\* One poll() step of a reconnect burst: the open request is answered with
\* "established", a pending Auth request with success, and nothing else arrives.
PollCooperative ==
    IF pPc = "reconnSleep" THEN PollReconnectConnect("established")
    ELSE IF pPc = "authHandled" THEN PollAuthHandled
    ELSE IF pPc = "resubscribe" THEN PollResubscribe
    ELSE IF authReq /\ tstate = "Connected"
    THEN PollAuthReply([success |-> TRUE, device |-> TRUE])
    ELSE PollIdle

BurstStep == inBurst /\ PollCooperative

FairNext ==
    \/ ~inBurst /\ Next
    \/ BurstStep

\* poll() is called again and again (run(), or the application's loop)
FairSpec == Init /\ [][FairNext]_vars /\ WF_vars(BurstStep)

\* ---- one application thread and no other ---------------------------------
\* The usage of the header example: the thread that calls connect() is the only
\* one that ever calls poll(), so no poll() runs while a connect() is in progress
\* and no call starts while poll() sleeps in processReconnection.  An Auth reply is
\* read only by poll(), and a request is outstanding only inside connect(), so the
\* poll() steps that handle a reply do not occur.
SoloNext ==
    \/ /\ pPc = "idle"
       /\ \/ Connect
          \/ \E o \in ConnectOutcomes : ConnectTransport(o)
          \/ ConnectWait
          \/ AuthWait
          \/ AuthTimedOut
          \/ \E o \in ConnectOutcomes : ConnectAsync(o)
          \/ uPc = "idle" /\ Disconnect
    \/ /\ uPc = "idle"
       /\ \/ PollIdle
          \/ PollClosed
          \/ \E o \in ConnectOutcomes : PollReconnectConnect(o)

SoloSpec == Init /\ [][SoloNext]_vars

\* ---- run() -----------------------------------------------------------------
\* The polling thread is inside run() from the start, with running_ true (stop() is
\* not called): it calls poll() while state_ != Closed and returns when it finds
\* Closed.  The application thread calls connect() and disconnect(), one after the
\* other.
RunPoll ==
    /\ state # "Closed"
    /\ \/ PollIdle
       \/ PollClosed
       \/ \E m \in AuthReplies : PollAuthReply(m)

RunReturn ==
    /\ pPc = "idle"
    /\ state = "Closed"
    /\ Commit(Emit(Cur, Ev("ret", "run", 0)))
    /\ pPc' = "returned"
    /\ UNCHANGED <<config, uPc, authFailed, inBurst, burstCbs>>

\* what the thread inside run() does next
RunStep ==
    \/ RunPoll
    \/ PollAuthHandled
    \/ PollResubscribe
    \/ \E o \in {"established", "error"} : PollReconnectConnect(o)
    \/ RunReturn

RunNext ==
    \/ Connect
    \/ \E o \in {"established", "error"} : ConnectTransport(o)
    \/ ConnectWait
    \/ AuthWait
    \/ AuthTimedOut
    \/ uPc = "idle" /\ Disconnect
    \/ RunStep

\* the thread inside run() is never held up for good: it takes a step again and
\* again as long as a step of it changes anything
RunSpec == Init /\ [][RunNext]_vars /\ SF_vars(RunStep)

\* ---- the heartbeat ----------------------------------------------------------
\* One device with the heartbeat enabled and the reconnect policy off: it connects
\* (again after a session has ended), the polling thread polls as the clock ticks,
\* and the gateway answers a Ping or leaves it unanswered.
HeartbeatConfig == [reconnect |-> FALSE, maxAttempts |-> 0, resubscribe |-> TRUE,
                    heartbeat |-> TRUE, followQueue |-> FALSE,
                    backoff |-> DefaultBackoff]

HeartbeatInit == config = HeartbeatConfig /\ Started

\* the polling thread going on with poll() or calling it again, no frame arriving
HeartbeatPoll ==
    \/ PollIdle
    \/ PollAuthHandled
    \/ PollResubscribe

HeartbeatNext ==
    \/ Connect
    \/ ConnectTransport("established")
    \/ ConnectWait
    \/ AuthWait
    \/ PollAuthReply([success |-> TRUE, device |-> TRUE])
    \/ PollPong
    \/ HeartbeatPoll
    \/ Tick

\* the clock goes on and poll() is called again and again
HeartbeatSpec ==
    HeartbeatInit /\ [][HeartbeatNext]_vars /\ WF_vars(Tick) /\ WF_vars(HeartbeatPoll)

\* ---- the data path ------------------------------------------------------
\* One device with the content of sendQueue_ followed: it connects and authenticates,
\* subscribes and publishes while the polling thread writes the queue to the carrier
\* and reads what the gateway sends; the gateway may close the connection.
DataConfig == [reconnect |-> FALSE, maxAttempts |-> 0, resubscribe |-> TRUE,
               heartbeat |-> FALSE, followQueue |-> TRUE,
               backoff |-> DefaultBackoff]

DataInit == config = DataConfig /\ Started

DataNext ==
    \/ Connect
    \/ ConnectTransport("established")
    \/ ConnectWait
    \/ AuthWait
    \/ PollAuthReply([success |-> TRUE, device |-> TRUE])
    \/ PollAuthHandled
    \/ PollResubscribe
    \/ \E s \in Subjects : Subscribe(s)
    \/ \E subject \in PublishSubjects, payload \in 1..MaxPayload : Publish(subject, payload)
    \/ \E written \in BOOLEAN : PollWriteable(written)
    \/ PollUndecodable
    \/ PollIdle
    \/ PollClosed

DataSpec == DataInit /\ [][DataNext]_vars

\* ---- the subscription registry --------------------------------------------
\* One device that connects, subscribes (to a valid subject or to one that
\* isValidSubject rejects) and unsubscribes by id or by subject, loses the connection and
\* disconnects, with the close of the connection taken in its two steps, so that
\* subscribe() and unsubscribe() also run where the transport has closed and the
\* engine is still Connected.
RegistryConfig == [reconnect |-> FALSE, maxAttempts |-> 0, resubscribe |-> TRUE,
                   heartbeat |-> FALSE, followQueue |-> FALSE,
                   backoff |-> DefaultBackoff]

RegistryInit == config = RegistryConfig /\ Started

RegistryNext ==
    \/ Connect
    \/ ConnectTransport("established")
    \/ ConnectWait
    \/ AuthWait
    \/ PollAuthReply([success |-> TRUE, device |-> TRUE])
    \/ PollAuthHandled
    \/ PollResubscribe
    \/ \E s \in PublishSubjects : Subscribe(s)
    \/ \E i \in 1..MaxSubs : Unsubscribe(i)
    \/ \E s \in Subjects : UnsubscribeSubject(s)
    \/ Disconnect
    \/ PollIdle
    \/ PollClosedBegin
    \/ PollClosedCallback

RegistrySpec == RegistryInit /\ [][RegistryNext]_vars

\* ---- the matchers and permission checks on an established session --------
\* Patterns a gateway grants and an application registers in these runs
GrantPatterns == {<<"a", ".", ">">>, <<"a", ".", "*">>, <<"b">>, <<"*">>}
AllowLists == UNION {[1..n -> GrantPatterns] : n \in 0..MaxAllow}
DeviceInfos ==
    {nullopt}
    \cup {<<[allowedPublishTopics |-> l, allowedSubscribeTopics |-> << >>]>> : l \in AllowLists}
    \cup {<<[allowedPublishTopics |-> << >>, allowedSubscribeTopics |-> l]>> : l \in AllowLists}
\* registries after one subscribe(), or after two
Registries == [1..1 -> ValidSubjects] \cup [1..2 -> GrantPatterns]

\* A session in Connected: the gateway has answered the Auth request with some
\* DeviceInfo, or with none, and the application has subscribed
PureInit ==
    /\ config = [reconnect |-> TRUE, maxAttempts |-> 0, resubscribe |-> TRUE,
                 heartbeat |-> FALSE, followQueue |-> FALSE,
                 backoff |-> DefaultBackoff]
    /\ Constructed
    /\ state = "Connected"
    /\ tstate = "Connected"
    /\ authState = "Authenticated"
    /\ \/ deviceInfo \in DeviceInfos /\ subscriptions = << >>
       \/ deviceInfo = <<GatewayDevice>> /\ subscriptions \in Registries
    /\ enabled = TRUE
    /\ attemptCount = 0
    /\ subjectToId = [subject \in {subscriptions[i] : i \in DOMAIN subscriptions} |->
                         CHOOSE i \in DOMAIN subscriptions :
                            /\ subscriptions[i] = subject
                            /\ \A j \in DOMAIN subscriptions : subscriptions[j] = subject => j <= i]
    /\ nextSubscriptionId = Len(subscriptions) + 1
    /\ authReq = FALSE
    /\ authSent = TRUE
    /\ errCbs = 0
    /\ uPc = "idle"
    /\ pPc = "idle"
    /\ trace = << >>
    /\ authFailed = FALSE
    /\ inBurst = FALSE
    /\ burstCbs = 0

\* a call of a const function: what it was given and what it returned
Apply(name, args, result) ==
    /\ trace = << >>
    /\ trace' = <<Ev("call", name, 0)>>
                 \o [i \in 1..Len(args) |-> Ev("arg", Str(args[i]), i)]
                 \o <<Ev("result", IF result THEN "true" ELSE "false", 0)>>
    /\ UNCHANGED <<config, state, tstate, authState, deviceInfo, enabled, attemptCount,
                   subscriptions, subjectToId, nextSubscriptionId, sendQueue, sincePing,
                   sincePong, missedPongs, pingUnanswered, authReq, uPc, pPc,
                   authSent, errCbs, authFailed, inBurst, burstCbs>>

MatchesPattern(pattern, subject) ==
    /\ deviceInfo = nullopt
    /\ Apply("matchesPattern", <<pattern, subject>>, matchesPattern(pattern, subject))

CanPublish(subject) == Apply("canPublish", <<subject>>, canPublish(Cur, subject))

CanSubscribe(subject) == Apply("canSubscribe", <<subject>>, canSubscribe(Cur, subject))

\* One call per run.  matchesPattern is static, so it is applied in one session only;
\* the permission checks read deviceInfo_ alone, the dispatch the registry alone.
PureNext ==
    \/ /\ trace = << >> /\ deviceInfo = nullopt
       /\ \E pattern \in ValidSubjects, subject \in ConcreteSubjects :
             MatchesPattern(pattern, subject)
    \/ trace = << >> /\ \E subject \in ValidSubjects : CanPublish(subject)
    \/ trace = << >> /\ \E subject \in ValidSubjects : CanSubscribe(subject)
    \/ trace = << >> /\ \E subject \in ConcreteSubjects : PollMessage(subject, 1, "return")

PureSpec == PureInit /\ [][PureNext]_vars

\* ---- the reconnect policy on its own ----------------------------------
\* A ReconnectPolicy constructed from any backoff and asked for one delay after
\* the other, with reset() between bursts.
\* ---- subject validation on its own --------------------------------------
\* the strings handed to isValidSubject: those of Strings and those with a character
\* outside the subject alphabet
SubjectInputs == UNION {[1..n -> Chars \cup {"$"}] : n \in 0..MaxLen}

SubjectInit == PureInit /\ deviceInfo = nullopt

IsValidSubject(subject) == Apply("isValidSubject", <<subject>>, isValidSubject(subject))

\* One call per run.
SubjectNext == trace = << >> /\ \E subject \in SubjectInputs : IsValidSubject(subject)

SubjectSpec == SubjectInit /\ [][SubjectNext]_vars

DelayConfigs == [reconnect : {TRUE}, maxAttempts : {0, FiniteAttempts}, resubscribe : {TRUE},
                 heartbeat : {FALSE}, followQueue : {FALSE}, backoff : Backoffs]

DelayInit == config \in DelayConfigs /\ Started

\* ReconnectPolicy::getNextDelay; trace: "ret" with the delay returned
GetNextDelay ==
    /\ attemptCount < MaxDelayAttempts
    /\ \E delay \in nextDelays(Cur) :
          Commit(Emit(getNextDelay(Cur), Ev("ret", "getNextDelay", delay)))
    /\ UNCHANGED <<config, uPc, pPc, authFailed, inBurst, burstCbs>>

\* ReconnectPolicy::reset
PolicyReset ==
    /\ Commit(Emit(policyReset(Cur), Ev("call", "reset", 0)))
    /\ UNCHANGED <<config, uPc, pPc, authFailed, inBurst, burstCbs>>

DelayNext == GetNextDelay \/ PolicyReset

DelaySpec == DelayInit /\ [][DelayNext]_vars

TypeOK ==
    /\ state \in ConnectionStates
    /\ tstate \in TransportStates
    /\ authState \in AuthStates
    /\ deviceInfo = nullopt \/ Len(deviceInfo) = 1
    /\ attemptCount \in 0..AttemptCap \cup 0..MaxDelayAttempts
    /\ Len(sendQueue) <= MaxQueue
    /\ sincePing \in 0..HeartbeatInterval
    /\ sincePong \in {Never} \cup 0..(HeartbeatTimeout + 1)
    /\ missedPongs \in 0..MaxMissed
    /\ pingUnanswered \in BOOLEAN
    /\ uPc \in {"idle", "connTransport", "connWait", "authWait", "authTimedOut",
                 "blocked", "blockedAsync", "terminated"}
    /\ pPc \in {"idle", "reconnSleep", "authHandled", "resubscribe", "blocked",
                 "blockedInHandler", "terminated", "closed", "returned"}

\* ---- claims --------------------------------------------------------------
StateEvents(t) == SelectSeq(t, LAMBDA e : e.k = "state")
Has(t, e) == \E i \in 1..Len(t) : t[i].k = e.k /\ t[i].a = e.a /\ t[i].n = e.n
Index(t, e) == CHOOSE i \in 1..Len(t) : t[i].k = e.k /\ t[i].a = e.a /\ t[i].n = e.n

\* the Subscribe frames handed to transport_->send in a step, accepted or not
SubscribeFrames(t) ==
    SelectSeq(t, LAMBDA e : e.k \in {"send", "refused"} /\ e.a = "Subscribe")

\* the ids of S in ascending order
Ascending(S) ==
    [i \in 1..Cardinality(S) |-> CHOOSE x \in S : Cardinality({y \in S : y < x}) = i - 1]

\* In the step's trace: exactly one Subscribe frame per id of reg, ascending, all
\* of them before onConnected
ResubscribedBeforeOnConnected(t, reg) ==
    LET ids == Ascending(DOMAIN reg)
        frames == SubscribeFrames(t)
    IN /\ Has(t, Ev("cb", "onConnected", 0))
       /\ [i \in 1..Len(frames) |-> frames[i].n] = ids
       /\ SubscribeFrames(SubSeq(t, 1, Index(t, Ev("cb", "onConnected", 0)) - 1)) = frames

\* the step in which setState(Connected) completes and onConnected fires
CompletesConnected == pPc = "resubscribe" /\ pPc' # "resubscribe"

\* C1: after a transport loss in Connected with the reconnect policy allowing an
\* attempt, against a gateway that accepts the connection and would authenticate,
\* repeated poll() calls lead back to Connected
C1_ReconnectReachesConnected == inBurst ~> (state = "Connected")

\* C2: once the handler in which the transport opened has run on, an engine that is
\* Authenticating on an open connection has sent an Auth request on that connection,
\* whoever started the attempt (connect, connectAsync, automatic reconnect)
C2_AuthRequestSentOnOpen ==
    (state = "Authenticating" /\ tstate = "Connected"
        /\ uPc \in {"idle", "authWait"} /\ pPc = "idle") => authSent

\* C3 as stated: every transition into Connected hands one Subscribe frame per
\* registered subscription to the transport, ascending by id, before onConnected
C3_ResubscribeOnEveryConnect ==
    [][CompletesConnected => ResubscribedBeforeOnConnected(trace', subscriptions')]_vars

\* C3 amended: the same with resubscribeOnReconnect configured on; configured off,
\* no Subscribe frame is handed over in the transition
C3_ResubscribeWhenConfigured ==
    [][CompletesConnected =>
        IF config.resubscribe
        THEN ResubscribedBeforeOnConnected(trace', subscriptions')
        ELSE SubscribeFrames(trace') = << >> /\ Has(trace', Ev("cb", "onConnected", 0))]_vars

\* C3 witness: a session re-established with two subscriptions in the registry,
\* both just re-sent and accepted by the transport, onConnected fired
C3_Witness ==
    /\ state = "Connected"
    /\ config.resubscribe
    /\ Cardinality(DOMAIN subscriptions) = 2
    /\ Len(SelectSeq(trace, LAMBDA e : e.k = "send" /\ e.a = "Subscribe")) = 2
    /\ Has(trace, Ev("cb", "onConnected", 0))

\* C4: after an Auth failure reply, until connect() is called again, the engine is
\* never Reconnecting or Connecting and onReconnecting is not fired
C4_NoReconnectAfterAuthFailure ==
    authFailed => /\ state \notin {"Reconnecting", "Connecting"}
                  /\ \A i \in 1..Len(trace) : trace[i].a # "onReconnecting"

\* C5: once the connect() call that met an Auth failure reply has returned, onError
\* was invoked exactly once with AuthenticationFailed
C5_OnErrorOnceOnAuthFailure ==
    (authFailed /\ uPc = "idle") => errCbs = 1

\* C6: with disconnect() returned (state Closed) while processReconnection is past
\* its shouldReconnect check, the rest of the attempt leaves the state Closed and
\* the transport unopened
C6_DisconnectWinsOverReconnect ==
    [][(state = "Closed" /\ pPc = "reconnSleep" /\ pPc' = "idle")
          => (state' = "Closed" /\ tstate' # "Connected")]_vars

\* C7: disconnect() called in Connected reports exactly Closing then Closed through
\* onStateChanged and returns in Closed
C7_DisconnectSequence ==
    [][(state = "Connected" /\ state' = "Closed")
          => StateEvents(trace') = <<Ev("state", "Closing", 0), Ev("state", "Closed", 0)>>]_vars

\* C8: once Closed, the state stays Closed whatever happens
C8_ClosedIsTerminal == [][state = "Closed" => state' = "Closed"]_vars

\* C9: in Connected the auth manager holds a DeviceIdentity
C9_ConnectedHasIdentity == state = "Connected" => deviceInfo # nullopt

\* C10: outside Connected the auth manager holds no DeviceIdentity and is not
\* Authenticated
C10_NoIdentityOutsideConnected ==
    state # "Connected" => (deviceInfo = nullopt /\ authState # "Authenticated")

\* what connect() returned in the step
ConnectReturned(t, r) == Has(t, Ev("ret", "connect:" \o r, 0))

\* C11: with no other thread polling, a connect() whose connection was accepted and
\* whose Auth request went out leaves its wait for the reply by returning true
C11_SoloConnectSucceeds ==
    [][(uPc = "authWait" /\ uPc' # "authWait") => ConnectReturned(trace', "true")]_vars

\* C12: a connect() that returns true while the polling thread is inside
\* handleAuthMessage for the Auth reply returns with the state Connected
C12_ConnectTrueMeansConnected ==
    [][(uPc = "authWait" /\ pPc = "authHandled" /\ ConnectReturned(trace', "true"))
          => state' = "Connected"]_vars

\* C13: between the transport close of an expired authTimeout and the return of
\* connect(), a poll() that finds no reconnect burst under way does not start one:
\* it fires no onReconnecting
C13_AuthTimeoutStartsNoReconnect ==
    [][(uPc = "authTimedOut" /\ pPc = "idle" /\ attemptCount = 0)
          => \A i \in 1..Len(trace') : trace'[i].a # "onReconnecting"]_vars

\* the onReconnecting callbacks of a step, as their attempt numbers
ReconnectingCalls(t) == SelectSeq(t, LAMBDA e : e.k = "cb" /\ e.a = "onReconnecting")

\* a step in which the engine gives up on the connection: it ends in Disconnected,
\* and not through a call of the application or an Auth failure
EndsDisconnected ==
    /\ state # "Disconnected"
    /\ state' = "Disconnected"
    /\ uPc' = uPc
    /\ ~Has(trace', Ev("state", "Connecting", 0))
    /\ ~Has(trace', Ev("log", "Authentication failed", 0))

C15_OnDisconnectedOnTerminalLoss ==
    [][((state = "Connected" \/ inBurst) /\ EndsDisconnected)
          => CountCb(trace', "onDisconnected") = 1]_vars

\* ---- the token-wise matcher of the specification --------------------------
\* the maximal dot-free pieces of a subject
RECURSIVE Tokens(_)
Tokens(str) ==
    IF \A i \in 1..Len(str) : str[i] # "." THEN <<str>>
    ELSE LET d == CHOOSE i \in 1..Len(str) : str[i] = "." /\ \A j \in 1..(i - 1) : str[j] # "."
         IN <<SubSeq(str, 1, d - 1)>> \o Tokens(SubSeq(str, d + 1, Len(str)))

\* literal tokens equal, "*" exactly one token, ">" as last token one or more tokens
RECURSIVE TokensMatch(_, _)
TokensMatch(pt, st) ==
    IF pt = << >> THEN st = << >>
    ELSE IF Head(pt) = <<">">> THEN Len(pt) = 1 /\ Len(st) >= 1
    ELSE IF st = << >> THEN FALSE
    ELSE (Head(pt) = <<"*">> \/ Head(pt) = Head(st)) /\ TokensMatch(Tail(pt), Tail(st))

Matches(pattern, subject) == TokensMatch(Tokens(pattern), Tokens(subject))

\* the std::string an event of the trace shows
Unstr(a) == CHOOSE str \in Strings : Str(str) = a
\* the step was a call of the const function name
Called(t, name) == t # << >> /\ t[1].k = "call" /\ t[1].a = name
\* the i-th argument and the value returned of the call recorded in a step
Arg(t, i) == Unstr(t[1 + i].a)
Returned(t) == t[Len(t)].a = "true"
\* the subscription handlers invoked in a step, as their subscription ids
HandlerCalls(t) == SelectSeq(t, LAMBDA e : e.k = "handler")
\* the Message frames dispatched in a step
Received(t) == SelectSeq(t, LAMBDA e : e.k = "recv")

\* C16: no user callback is made with the engine mutex held, and no thread is blocked
\* inside a subscription handler that called back into the client
C16_NoCallbackUnderMutex ==
    /\ \A i \in 1..Len(trace) : trace[i].k # "locked"
    /\ pPc # "blockedInHandler"

\* C17: a poll() in which a subscription handler throws still invokes every handler
\* whose subscription matches, returns normally, and leaves the engine state as it was
C17_HandlerThrowContained ==
    [][(\E i \in 1..Len(trace') : trace'[i].k = "throw") =>
          /\ \A id \in DOMAIN subscriptions :
                matchesSubject(subscriptions[id], Unstr(Received(trace')[1].a))
                   => Has(trace', Ev("handler", "handler", id))
          /\ ~Has(trace', Ev("ret", "poll:exception", 0))
          /\ pPc' = "idle"
          /\ state' = state]_vars

\* C18: a dispatched Message invokes the handler of each subscription exactly once if
\* its pattern matches the subject token-wise, and not at all otherwise
C18_DispatchMatchesTokenwise ==
    [][(Received(trace') # << >> /\ pPc' = "idle") =>
          \A id \in DOMAIN subscriptions :
              Len(SelectSeq(HandlerCalls(trace'), LAMBDA e : e.n = id))
                 = IF Matches(subscriptions[id], Unstr(Received(trace')[1].a)) THEN 1 ELSE 0]_vars

\* C19: matchesPattern agrees with the token-wise matcher on every valid pattern and
\* valid concrete subject
C19_MatchesPatternIsTokenwise ==
    Called(trace, "matchesPattern")
        => Returned(trace) = Matches(Arg(trace, 1), Arg(trace, 2))

\* C19 witness: matchesPattern("a.>", "a") was evaluated and is false
C19_Witness ==
    /\ Called(trace, "matchesPattern")
    /\ Arg(trace, 1) = <<"a", ".", ">">> /\ Arg(trace, 2) = <<"a">>
    /\ ~Returned(trace)

\* C20: canPublish(S) is true exactly if a DeviceInfo is held and a pattern of its
\* allowedPublishTopics matches S; canSubscribe likewise over allowedSubscribeTopics
C20_PermissionIsAllowListMatch ==
    /\ Called(trace, "canPublish") =>
          Returned(trace) = (/\ deviceInfo # nullopt
                             /\ \E j \in 1..Len(deviceInfo[1].allowedPublishTopics) :
                                   Matches(deviceInfo[1].allowedPublishTopics[j],
                                           Arg(trace, 1)))
    /\ Called(trace, "canSubscribe") =>
          Returned(trace) = (/\ deviceInfo # nullopt
                             /\ \E j \in 1..Len(deviceInfo[1].allowedSubscribeTopics) :
                                   Matches(deviceInfo[1].allowedSubscribeTopics[j],
                                           Arg(trace, 1)))

\* C20 witness: with the allow-list <<"b", "a.*">> canPublish("a.b") was evaluated and
\* is true through the second pattern
C20_Witness ==
    /\ deviceInfo # nullopt
    /\ deviceInfo[1].allowedPublishTopics = << <<"b">>, <<"a", ".", "*">> >>
    /\ Called(trace, "canPublish")
    /\ Arg(trace, 1) = <<"a", ".", "b">>
    /\ Returned(trace)

\* the frames handed to transport_->send and the stats counters moved in a step
Sends(t) == SelectSeq(t, LAMBDA e : e.k \in {"send", "refused"})
Stats(t) == SelectSeq(t, LAMBDA e : e.k = "stat")
\* the step is a call of publish()
PublishCalled(t) == \E i \in 1..Len(t) : t[i].k = "ret" /\ t[i].a \in
                       {"publish:NotConnected", "publish:InvalidSubject", "publish:ok"}

\* C21: publish() in a state other than Connected returns NotConnected, hands no
\* frame to the transport and moves no stats counter
C21_PublishNotConnected ==
    [][(PublishCalled(trace') /\ state # "Connected") =>
          /\ \E n \in 1..MaxPayload : Has(trace', Ev("ret", "publish:NotConnected", n))
          /\ Sends(trace') = << >>
          /\ Stats(trace') = << >>
          /\ sendQueue' = sendQueue]_vars

\* C21 witness: publish() has returned NotConnected while the engine authenticates
C21_Witness ==
    /\ state = "Authenticating"
    /\ Has(trace, Ev("ret", "publish:NotConnected", 1))

\* the frames written to the carrier in a step
Writes(t) == SelectSeq(t, LAMBDA e : e.k = "write")
\* the frames the transport queued in a step
Queued(t) == LET sent == SelectSeq(t, LAMBDA e : e.k = "send")
             IN [i \in 1..Len(sent) |-> [type |-> sent[i].a, n |-> sent[i].n]]

\* C22: the send queue is first-in first-out: a step that writes a frame writes the
\* frame accepted before all others that wait and removes it, and any other step,
\* a failed write among them, only appends the frames it accepted, in call order
C22_PublishOrder ==
    [][IF Writes(trace') # << >>
       THEN /\ sendQueue # << >>
            /\ Writes(trace') = <<Ev("write", Head(sendQueue).type, Head(sendQueue).n)>>
            /\ sendQueue' = Tail(sendQueue)
       ELSE sendQueue' = sendQueue \o Queued(trace')]_vars

\* C22 witness: publish(2) then publish(1) were accepted, and the frame of publish(2)
\* was written while the frame of publish(1) waits
C22_Witness ==
    /\ Has(trace, Ev("write", "Publish", 2))
    /\ sendQueue = <<[type |-> "Publish", n |-> 1]>>

\* C23: the frames waiting in the outbound queue never exceed maxOutgoingMessages
C23_QueueBounded == Len(sendQueue) <= MaxOutgoingMessages

\* C24: an inbound frame that fails to decode counts one error, fires onError, and
\* changes neither the connection state nor the receive counters
C24_DecodeErrorReported ==
    [][Has(trace', Ev("log", "Failed to parse message", 0)) =>
          /\ Has(trace', Ev("stat", "errorCount", 1))
          /\ \E i \in 1..Len(trace') :
                 trace'[i].k = "cb" /\ trace'[i].a \in
                    {"onError:InternalError", "onError:InvalidPayload", "onError:ProtocolError"}
          /\ ~Has(trace', Ev("stat", "messagesReceived", 1))
          /\ state' = state]_vars

\* the step is a call of subscribe()
SubscribeCalled(t) ==
    \E i \in 1..Len(t) : t[i].k = "ret" /\ t[i].a \in {"subscribe:NotConnected", "subscribe:id"}
\* the ids that successful subscribe() calls returned in a step
SubscribeIds(t) ==
    {t[i].n : i \in {j \in 1..Len(t) : t[j].k = "ret" /\ t[j].a = "subscribe:id"}}

\* C25: subscribe() in a state other than Connected allocates an id, registers the
\* subscription, sends nothing and returns the id
C25_SubscribeDeferred ==
    [][(SubscribeCalled(trace') /\ state # "Connected") =>
          /\ SubscribeIds(trace') = {nextSubscriptionId}
          /\ nextSubscriptionId \in DOMAIN subscriptions'
          /\ Sends(trace') = << >>]_vars

\* C26: an id returned by subscribe() is above every id returned before it: it is the
\* value of the id counter, which the call moves past it, which never goes back, and
\* below which every registered id lies
C26_SubscriptionIdsUnique ==
    [][/\ nextSubscriptionId' >= nextSubscriptionId
       /\ \A id \in SubscribeIds(trace') :
             id >= nextSubscriptionId /\ id < nextSubscriptionId'
       /\ \A id \in DOMAIN subscriptions' : id < nextSubscriptionId']_vars

\* C26 witness: a subscribe() has failed in transport_->send after it took id 2, with
\* the subscription of id 1 registered
C26_Witness ==
    /\ Has(trace, Ev("refused", "Subscribe", 2))
    /\ nextSubscriptionId = 3
    /\ DOMAIN subscriptions = {1}

\* C27: an entry of the registry stays as it is in every step but its unsubscribe()
C27_RegistryKept ==
    [][\A id \in DOMAIN subscriptions :
          \/ id \in DOMAIN subscriptions' /\ subscriptions'[id] = subscriptions[id]
          \/ Has(trace', Ev("ret", "unsubscribe:ok", id))]_vars

\* C27 witness: a subscription is registered after disconnect() has closed the session
C27_Witness ==
    /\ state = "Closed"
    /\ Has(trace, Ev("state", "Closed", 0))
    /\ DOMAIN subscriptions # {}

\* the session is over: disconnect() has closed it, or the connection is lost with
\* no connect() in progress and the reconnect policy disabled or exhausted
SessionOver ==
    \/ state = "Closed"
    \/ /\ state = "Disconnected" /\ tstate = "Closed" /\ uPc = "idle"
       /\ ~shouldReconnect(Cur)

\* C28: run() returns once the session is over
C28_RunTerminates == SessionOver ~> (pPc = "returned")

\* the step asked the transport to disconnect with reason "Heartbeat timeout"
HeartbeatDisconnect(t) == Has(t, Ev("disconnect", "Heartbeat timeout", 0))

\* C29: the heartbeat disconnect is requested in exactly the steps that take the
\* missed-pong count to missedPongsBeforeDisconnect, and the count never passes it
C29_DisconnectAtNthMiss ==
    [][/\ HeartbeatDisconnect(trace') <=>
             (missedPongs' = MissedPongsBeforeDisconnect /\ missedPongs' = missedPongs + 1)
       /\ missedPongs' <= MissedPongsBeforeDisconnect]_vars

\* C30: in Connected with the heartbeat enabled, sooner or later a Pong arrives or
\* the session is ended (by the heartbeat disconnect, the only way it ends here)
C30_SilentPeerIsDisconnected ==
    (state = "Connected") ~> (state # "Connected" \/ Has(trace, Ev("pong", "Pong", 0)))

\* C31: the missed-pong count goes up, and a heartbeat disconnect is requested, only in
\* a poll() at which a Ping has been sent since the last Pong was received
C31_MissOnlyWithPingOutstanding ==
    [][(missedPongs' > missedPongs \/ HeartbeatDisconnect(trace')) => pingUnanswered']_vars

\* the delay getNextDelay returned in the step, and the attempt it was computed for
DelayReturned(t, delay) == Has(t, Ev("ret", "getNextDelay", delay))

\* C32: with jitter disabled the k-th delay of a burst is
\* min(initialDelay * multiplier^(k-1), maxDelay), in whole units: it is at most
\* maxDelay and not below the delay before it
C32_DelayIsCappedBackoff ==
    [][\A delay \in 0..(DelayCap + MaxInitialDelay + 1) :
          (/\ DelayReturned(trace', delay)
           /\ attemptCount' = attemptCount + 1
           /\ ~config.backoff.jitter)
          => /\ delay = min(backoff(attemptCount'), config.backoff.maxDelay)
             /\ delay <= config.backoff.maxDelay
             /\ attemptCount' > 1 =>
                   delay >= min(backoff(attemptCount), config.backoff.maxDelay)]_vars

\* the step is handleAuthMessage finding the device authenticated
AuthSucceeded == pPc = "authHandled" /\ pPc' # "authHandled" /\ isAuthenticated(Cur)

\* C33: the attempt counter is 0 after an Auth success, and no other step lowers it
C33_CounterResetByAuthSuccessOnly ==
    [][/\ AuthSucceeded => attemptCount' = 0
       /\ ~AuthSucceeded => attemptCount' >= attemptCount]_vars

\* an Auth success about to be handled in a session made by a reconnect attempt
C33_Witness == pPc = "authHandled" /\ isAuthenticated(Cur) /\ attemptCount > 0

\* the tokens of a subject: its maximal runs without a dot, as pairs of positions
TokenSpans(subject) ==
    {span \in (1..Len(subject)) \X (1..Len(subject)) :
        /\ span[1] <= span[2]
        /\ \A i \in span[1]..span[2] : subject[i] # "."
        /\ span[1] = 1 \/ subject[span[1] - 1] = "."
        /\ span[2] = Len(subject) \/ subject[span[2] + 1] = "."}

\* a non-empty dot-delimited sequence of non-empty tokens, at most 256 characters,
\* each token a word of [A-Za-z0-9_-], or "*", or ">" in last position
WellFormedSubject(subject) ==
    /\ subject # << >>
    /\ Len(subject) <= 256
    /\ subject[1] # "." /\ subject[Len(subject)] # "."
    /\ \A i \in 1..(Len(subject) - 1) : ~(subject[i] = "." /\ subject[i + 1] = ".")
    /\ \A span \in TokenSpans(subject) :
          \/ \A i \in span[1]..span[2] : subject[i] \in AlnumChars
          \/ span[1] = span[2] /\ subject[span[1]] = "*"
          \/ span[1] = span[2] /\ subject[span[1]] = ">" /\ span[2] = Len(subject)

\* C34: isValidSubject accepts exactly the well-formed subjects
C34_ValidSubjectIsGrammar ==
    \A subject \in SubjectInputs :
        (Called(trace, "isValidSubject") /\ trace[2].a = Str(subject))
            => (Returned(trace) <=> WellFormedSubject(subject))

\* C35: with no call in progress on either thread, an engine that is Disconnected or
\* Closed holds a transport that is not open, so that connect() can open it
C35_IdleEngineHasClosedTransport ==
    (state \in {"Disconnected", "Closed"} /\ uPc = "idle" /\ pPc = "idle")
        => tstate \notin {"Connected", "Connecting"}

\* the step is a poll() in which the carrier reports the connection of a session in
\* Connected closed, no disconnect() having asked for it
TransportLost ==
    /\ state = "Connected"
    /\ tstate = "Connected" /\ tstate' = "Closed"
    /\ ~Has(trace', Ev("state", "Closing", 0))

\* C36: with auto-reconnect configured on, every transport loss in Connected moves
\* the engine to Reconnecting, in the first session and in every later one
C36_ReconnectInEverySession ==
    [][(config.reconnect /\ TransportLost) => state' = "Reconnecting"]_vars

\* what unsubscribe(subject) would do if called now
AfterUnsubscribeSubject(subject) == unsubscribeSubject(Cur, subject)

\* C37: for every subscription held in the registry, unsubscribe(subject) with its
\* subject succeeds and removes one subscription that has this subject
C37_IndexFindsEverySubscription ==
    \A id \in DOMAIN subscriptions :
        LET w == AfterUnsubscribeSubject(subscriptions[id])
        IN /\ w.ret = "ok"
           /\ \E removed \in DOMAIN subscriptions :
                 /\ subscriptions[removed] = subscriptions[id]
                 /\ DOMAIN w.subscriptions = DOMAIN subscriptions \ {removed}

\* the subscribe() of the step returned an error
SubscribeFailed(t) ==
    \/ Has(t, Ev("ret", "subscribe:NotConnected", 0))
    \/ Has(t, Ev("ret", "subscribe:InvalidSubject", 0))

\* C38: a subscribe() that returns an error leaves the subscription map and the
\* subject index as they were
C38_FailedSubscribeChangesNothing ==
    [][SubscribeFailed(trace') =>
          (subscriptions' = subscriptions /\ subjectToId' = subjectToId)]_vars

\* C39: the missed-pong count is 0 on every entry into Connected, and the poll() in
\* which a session is established does not request the heartbeat disconnect
C39_HeartbeatStartsFresh ==
    [][/\ (state # "Connected" /\ state' = "Connected") => missedPongs' = 0
       /\ pPc = "resubscribe" => ~HeartbeatDisconnect(trace')]_vars

\* the step is a call of connect(): one that returned at once, or one that went on
\* to the transport
ConnectCalled == uPc = "idle" /\ (uPc' = "connTransport" \/ \E r \in {"true", "false"} :
                                                           ConnectReturned(trace', r))
\* the step is a call of connectAsync() that returned code
ConnectAsyncReturned(code) == uPc = "idle" /\ Has(trace', Ev("ret", "connectAsync:" \o code, 0))

\* the step changed nothing of the engine, the auth manager, the policy, the registry
\* or the transport, and made no callback and handed no frame to the transport
NothingDone ==
    /\ Len(trace') = 1
    /\ UNCHANGED <<state, tstate, authState, deviceInfo, enabled, attemptCount, subscriptions,
                   subjectToId, nextSubscriptionId, sendQueue, authReq, authSent, uPc, pPc>>

====
